---- MODULE Spec2Model ----
(***************************************************************************)
(* A model of src/datafun_05_sql/case_duckdb_library.py: the repo-root     *)
(* resolver find_repo_root and the DuckDB pipeline main() with its helpers *)
(* read_sql, run_sql_script and run_sql_query.                             *)
(***************************************************************************)
EXTENDS Integers, Sequences, FiniteSets, TLC

\* ---------------------------------------------------------------- bounds

\* Deepest directory of the modelled file system (levels below "/").
MaxDepth == 11
\* Most directories that hold a pyproject.toml at once.
MaxMarkers == 2
\* Most rows a query returns.
MaxRows == 2

\* Variant: the walk makes one iteration too many.
WalkLimitOff == 10 + 1

\* range(10) of find_repo_root.
WalkLimit == 10

\* ------------------------------------------------------------- variables

VARIABLES
    fs_markers,   \* the directories in which pyproject.toml exists
    fr_start,     \* find_repo_root: the argument start
    fr_pc,        \* find_repo_root: "call", "loop" or "done"
    fr_cur,       \* find_repo_root: the local cur
    fr_iter,      \* find_repo_root: iterations of range(10) begun so far
    fr_checked,   \* find_repo_root: the directories tested with exists(), in order
    fr_result,    \* find_repo_root: the returned path
    pc,           \* main and its callees: the statement to run next
    stage,        \* main: index in TryBody of the call being made
    con,          \* the connection: "none", "open" or "closed"
    opens,        \* successful duckdb.connect calls
    closes,       \* con.close() calls
    exc,          \* the exception in flight ("none" when there is none)
    sql_text,     \* read_sql's return value, handed to con.execute
    result,       \* run_sql_query: the local result
    rows,         \* run_sql_query: the local rows
    cols,         \* run_sql_query: the local cols
    row_i,        \* run_sql_query: position of the for loop in rows
    log,          \* what LOG has emitted, in order
    events,       \* what has happened so far, in order
    exit_code     \* the process's exit status (-1 while running)

pipeVars == <<pc, stage, con, opens, closes, exc, sql_text, result, rows, cols,
              row_i, log, events, exit_code>>

rootVars == <<fs_markers, fr_start, fr_pc, fr_cur, fr_iter, fr_checked, fr_result>>

vars == <<fs_markers, fr_start, fr_pc, fr_cur, fr_iter, fr_checked, fr_result,
          pc, stage, con, opens, closes, exc, sql_text, result, rows, cols,
          row_i, log, events, exit_code>>

\* ----------------------------------------------------------------- paths

\* A Path is [abs, parts]: parts are its components below "/" (abs) or below
\* the working directory (not abs).  ".." is the parent reference.
Abs(parts) == [abs |-> TRUE, parts |-> parts]
Rel(parts) == [abs |-> FALSE, parts |-> parts]

\* The process's working directory.
Cwd == <<"d", "d">>

\* The directory k levels below "/" on the modelled branch.
RECURSIVE Chain(_)
Chain(k) == IF k = 0 THEN <<>> ELSE Append(Chain(k - 1), "d")

\* Path.parent: the last component dropped; the parent of "/" is "/".
Parent(p) ==
    IF Len(p.parts) = 0 THEN p
    ELSE [p EXCEPT !.parts = SubSeq(p.parts, 1, Len(p.parts) - 1)]

\* path / name
Join(p, name) == [p EXCEPT !.parts = Append(p.parts, name)]

\* Collapse the ".." components of parts onto the absolute prefix acc.
RECURSIVE Normalise(_, _)
Normalise(acc, parts) ==
    IF parts = <<>> THEN acc
    ELSE IF Head(parts) = ".."
         THEN Normalise(IF acc = <<>> THEN acc
                        ELSE SubSeq(acc, 1, Len(acc) - 1), Tail(parts))
         ELSE Normalise(Append(acc, Head(parts)), Tail(parts))

\* Path.resolve(): absolute (relative paths are taken from the working
\* directory) with ".." collapsed.
Resolve(p) == Abs(Normalise(IF p.abs THEN <<>> ELSE Cwd, p.parts))

\* (dir / "pyproject.toml").exists()
HasMarker(dir) == dir \in fs_markers

\* -------------------------------------------------------- find_repo_root

\* cur = start.resolve()
FrEnter ==
    /\ fr_pc = "call"
    /\ fr_cur' = Resolve(fr_start)
    /\ fr_iter' = 0
    /\ fr_pc' = "loop"
    /\ UNCHANGED <<fs_markers, fr_start, fr_checked, fr_result>>
    /\ UNCHANGED pipeVars

\* An iteration whose test succeeds: return cur.
FrFound ==
    /\ fr_pc = "loop"
    /\ fr_iter < WalkLimit
    /\ HasMarker(fr_cur)
    /\ fr_checked' = Append(fr_checked, fr_cur)
    /\ fr_iter' = fr_iter + 1
    /\ fr_result' = fr_cur
    /\ fr_pc' = "done"
    /\ UNCHANGED <<fs_markers, fr_start, fr_cur>>
    /\ UNCHANGED pipeVars

\* An iteration whose test fails: cur = cur.parent.
FrAscend ==
    /\ fr_pc = "loop"
    /\ fr_iter < WalkLimit
    /\ ~HasMarker(fr_cur)
    /\ fr_checked' = Append(fr_checked, fr_cur)
    /\ fr_iter' = fr_iter + 1
    /\ fr_cur' = Parent(fr_cur)
    /\ UNCHANGED <<fs_markers, fr_start, fr_pc, fr_result>>
    /\ UNCHANGED pipeVars

\* Variant: the fallback returns where the walk stopped, not start.
FrFallbackCur ==
    /\ fr_pc = "loop"
    /\ fr_iter = WalkLimit
    /\ fr_result' = fr_cur
    /\ fr_pc' = "done"
    /\ UNCHANGED <<fs_markers, fr_start, fr_cur, fr_iter, fr_checked>>
    /\ UNCHANGED pipeVars

\* The loop is exhausted: return start.resolve().
FrFallback ==
    /\ fr_pc = "loop"
    /\ fr_iter = WalkLimit
    /\ fr_result' = Resolve(fr_start)
    /\ fr_pc' = "done"
    /\ UNCHANGED <<fs_markers, fr_start, fr_cur, fr_iter, fr_checked>>
    /\ UNCHANGED pipeVars


\* ------------------------------------------------------------ path values

\* Path(__file__).resolve().parent: where the script lives in a checkout.
ScriptDir == Abs(<<"repo", "src", "datafun_05_sql">>)

\* str(path)
RECURSIVE PartsStr(_)
PartsStr(parts) ==
    IF parts = <<>> THEN ""
    ELSE "/" \o Head(parts) \o PartsStr(Tail(parts))

PathStr(p) ==
    IF p.parts = <<>> THEN (IF p.abs THEN "/" ELSE ".")
    ELSE IF p.abs THEN PartsStr(p.parts)
    ELSE Head(p.parts) \o PartsStr(Tail(p.parts))

\* path.name: the last component
PathName(p) == IF p.parts = <<>> THEN "" ELSE p.parts[Len(p.parts)]

\* The module constants computed from find_repo_root's result.
ROOT_DIR == fr_result
SQL_DIR == Join(Join(ROOT_DIR, "sql"), "duckdb")
ARTIFACTS_DIR == Join(Join(ROOT_DIR, "artifacts"), "duckdb")
DB_PATH == Join(ARTIFACTS_DIR, "library.duckdb")
CREATE_TABLES_SQL == Join(SQL_DIR, "create_library_tables.sql")
LOAD_DATA_SQL == Join(SQL_DIR, "load_library_data.sql")
COUNTS_SQL == Join(SQL_DIR, "query_library_counts.sql")
KPI_SQL == Join(SQL_DIR, "query_library_kpi.sql")

\* ------------------------------------------------------- values and text

IntV(n) == [t |-> "int", i |-> n, s |-> ""]
StrV(x) == [t |-> "str", i |-> 0, s |-> x]
NullV == [t |-> "null", i |-> 0, s |-> ""]

Digit(d) ==
    CASE d = 0 -> "0" [] d = 1 -> "1" [] d = 2 -> "2" [] d = 3 -> "3"
      [] d = 4 -> "4" [] d = 5 -> "5" [] d = 6 -> "6" [] d = 7 -> "7"
      [] d = 8 -> "8" [] d = 9 -> "9"

RECURSIVE NatStr(_)
NatStr(n) == IF n < 10 THEN Digit(n) ELSE NatStr(n \div 10) \o Digit(n % 10)

\* str(v) of a fetched value
PyStr(v) ==
    CASE v.t = "int" -> (IF v.i < 0 THEN "-" \o NatStr(-v.i) ELSE NatStr(v.i))
      [] v.t = "str" -> v.s
      [] v.t = "null" -> "None"

\* sep.join(strs)
RECURSIVE JoinStr(_, _)
JoinStr(sep, strs) ==
    IF strs = <<>> THEN ""
    ELSE IF Len(strs) = 1 THEN strs[1]
    ELSE strs[1] \o sep \o JoinStr(sep, Tail(strs))

\* ------------------------------------------------------ the engine's side

\* The relations a query may select from: a description (name and type of
\* each column, in select order) and the rows the relation can hold.
Relations ==
    { [ description |-> << [name |-> "n", type |-> "INTEGER"] >>,
        pool |-> { << IntV(-3) >>, << IntV(12) >> } ],
      [ description |-> << [name |-> "branch_name", type |-> "VARCHAR"],
                           [name |-> "checkouts", type |-> "INTEGER"] >>,
        pool |-> { << StrV("x"), IntV(12) >>, << NullV, IntV(-3) >> } ],
      [ description |-> << [name |-> "branch_id", type |-> "INTEGER"],
                           [name |-> "city", type |-> "VARCHAR"],
                           [name |-> "total", type |-> "INTEGER"] >>,
        pool |-> { << IntV(7), StrV("x"), IntV(105) >>,
                   << IntV(12), NullV, IntV(0) >> } ] }

SeqsUpTo(S, n) == UNION { [1..k -> S] : k \in 0..n }

\* The result sets the engine may return: the rows in any order, with
\* repetitions, up to MaxRows of them.
QueryResults ==
    UNION { { [description |-> rel.description, rows |-> rs] :
                rs \in SeqsUpTo(rel.pool, MaxRows) } : rel \in Relations }

NoResult == [description |-> <<>>, rows |-> <<>>]

\* ------------------------------------------------------------------ main

\* Variant: the data is loaded before the tables are created.
TryBodySwapped ==
    << [fn |-> "script", path |-> LOAD_DATA_SQL],
       [fn |-> "script", path |-> CREATE_TABLES_SQL],
       [fn |-> "query", path |-> COUNTS_SQL],
       [fn |-> "query", path |-> KPI_SQL] >>

\* The calls of main's try block, in program order.
TryBody ==
    << [fn |-> "script", path |-> CREATE_TABLES_SQL],
       [fn |-> "script", path |-> LOAD_DATA_SQL],
       [fn |-> "query", path |-> COUNTS_SQL],
       [fn |-> "query", path |-> KPI_SQL] >>

\* The first statement of the i-th call of the try block; past the last
\* call, the finally clause.
EntryPc(i) ==
    IF i > Len(TryBody) THEN "finally"
    ELSE IF TryBody[i].fn = "script" THEN "s_log" ELSE "q_log"

sql_path == TryBody[stage].path

Info(msg) == [kind |-> "info", msg |-> msg]
\* The title passed to log_header, its dash written in ASCII.
HeaderTitle == "P05 DuckDB Pipeline - Library Domain"
HeaderEntry == [kind |-> "header", msg |-> HeaderTitle]
Delimiter == "===================================="

\* An entry of the history: what happened, to which SQL file, how long the
\* log was, what state the connection was in, and the result set the engine
\* handed back (for "execute" of a query).
EventR(ev, file, res) ==
    [ev |-> ev, file |-> file, at |-> Len(log), con |-> con, res |-> res]

Event(ev, file) == EventR(ev, file, NoResult)

\* log_header(LOG, ...)
LogHeader ==
    /\ pc = "header"
    /\ fr_pc = "done"
    /\ log' = Append(log, HeaderEntry)
    /\ pc' = "mkdir"
    /\ UNCHANGED <<stage, con, opens, closes, exc, sql_text, result, rows, cols,
                   row_i, events, exit_code>>
    /\ UNCHANGED rootVars

\* ARTIFACTS_DIR.mkdir(parents=True, exist_ok=True): it returns, or raises
\* outside the try block.
MkArtifactsDir ==
    /\ pc = "mkdir"
    /\ \E ok \in BOOLEAN :
         IF ok
         THEN /\ pc' = "connect"
              /\ UNCHANGED <<exc, events>>
         ELSE /\ pc' = "exit"
              /\ exc' = "OSError"
              /\ events' = Append(events, Event("acquire_failed", ""))
    /\ UNCHANGED <<stage, con, opens, closes, sql_text, result, rows, cols,
                   row_i, log, exit_code>>
    /\ UNCHANGED rootVars

\* Variant: duckdb.connect is called inside the try block, so its failure
\* reaches the finally clause.
ConnectInsideTry ==
    /\ pc = "connect"
    /\ \E ok \in BOOLEAN :
         IF ok
         THEN /\ con' = "open"
              /\ opens' = opens + 1
              /\ stage' = 1
              /\ pc' = EntryPc(1)
              /\ events' = Append(events, Event("connect", PathName(DB_PATH)))
              /\ UNCHANGED exc
         ELSE /\ pc' = "finally"
              /\ exc' = "IOException"
              /\ events' = Append(events, Event("acquire_failed", ""))
              /\ UNCHANGED <<con, opens, stage>>
    /\ UNCHANGED <<closes, sql_text, result, rows, cols, row_i, log, exit_code>>
    /\ UNCHANGED rootVars

\* con = duckdb.connect(str(DB_PATH)): it returns a connection, and the try
\* block is entered, or it raises outside the try block.
Connect ==
    /\ pc = "connect"
    /\ \E ok \in BOOLEAN :
         IF ok
         THEN /\ con' = "open"
              /\ opens' = opens + 1
              /\ stage' = 1
              /\ pc' = EntryPc(1)
              /\ events' = Append(events, Event("connect", PathName(DB_PATH)))
              /\ UNCHANGED exc
         ELSE /\ pc' = "exit"
              /\ exc' = "IOException"
              /\ events' = Append(events, Event("acquire_failed", ""))
              /\ UNCHANGED <<con, opens, stage>>
    /\ UNCHANGED <<closes, sql_text, result, rows, cols, row_i, log, exit_code>>
    /\ UNCHANGED rootVars

\* Variant: no finally clause, the exception leaves main at once.
RaiseNoFinally(name, ev) ==
    /\ exc' = name
    /\ pc' = "exit"
    /\ events' = Append(events, Event(ev, PathName(sql_path)))

\* Variant: the exception is caught and dropped before the finally clause.
RaiseSwallowed(name, ev) ==
    /\ exc' = "none"
    /\ pc' = "finally"
    /\ events' = Append(events, Event(ev, PathName(sql_path)))

\* An exception raised inside the try block: control goes to the finally
\* clause with the exception in flight.
Raise(name, ev) ==
    /\ exc' = name
    /\ pc' = "finally"
    /\ events' = Append(events, Event(ev, PathName(sql_path)))

\* A callee returns to main: the next call of the try block, or the finally
\* clause after the last.  before is the history up to the return.
Return(before) ==
    /\ stage' = stage + 1
    /\ pc' = EntryPc(stage + 1)
    /\ events' = Append(before, Event("return", PathName(sql_path)))

\* Variant: run_sql_script logs nothing.
ScriptLogSilent ==
    /\ pc = "s_log"
    /\ events' = Append(events, Event("start", PathName(sql_path)))
    /\ pc' = "s_read"
    /\ UNCHANGED <<stage, con, opens, closes, exc, sql_text, result, rows, cols,
                   row_i, log, exit_code>>
    /\ UNCHANGED rootVars

\* run_sql_script: LOG.info(f"RUN SQL script: {sql_path}")
ScriptLog ==
    /\ pc = "s_log"
    /\ log' = Append(log, Info("RUN SQL script: " \o PathStr(sql_path)))
    /\ events' = Append(events, Event("start", PathName(sql_path)))
    /\ pc' = "s_read"
    /\ UNCHANGED <<stage, con, opens, closes, exc, sql_text, result, rows, cols,
                   row_i, exit_code>>
    /\ UNCHANGED rootVars

\* run_sql_query: LOG.info(""); LOG.info(f"RUN SQL query: {sql_path}")
QueryLog ==
    /\ pc = "q_log"
    /\ log' = log \o << Info(""), Info("RUN SQL query: " \o PathStr(sql_path)) >>
    /\ events' = Append(events, Event("start", PathName(sql_path)))
    /\ pc' = "q_read"
    /\ UNCHANGED <<stage, con, opens, closes, exc, sql_text, result, rows, cols,
                   row_i, exit_code>>
    /\ UNCHANGED rootVars

\* read_sql(sql_path): the file's text, or FileNotFoundError.
ReadSql ==
    /\ pc \in {"s_read", "q_read"}
    /\ \E found \in BOOLEAN :
         IF found
         THEN /\ sql_text' = PathStr(sql_path)
              /\ pc' = (IF pc = "s_read" THEN "s_exec" ELSE "q_exec")
              /\ events' = Append(events, Event("read", PathName(sql_path)))
              /\ UNCHANGED exc
         ELSE /\ Raise("FileNotFoundError", "read_failed")
              /\ UNCHANGED sql_text
    /\ UNCHANGED <<stage, con, opens, closes, result, rows, cols, row_i, log,
                   exit_code>>
    /\ UNCHANGED rootVars

\* Variant: run_sql_script closes the connection once its script has run.
ScriptExecuteCloses ==
    /\ pc = "s_exec"
    /\ \E ok \in BOOLEAN :
         IF ok /\ con = "open"
         THEN /\ Return(Append(events, Event("execute", PathName(sql_path))))
              /\ con' = "closed"
              /\ closes' = closes + 1
              /\ UNCHANGED exc
         ELSE /\ Raise("duckdb.Error", "execute_failed")
              /\ UNCHANGED <<stage, con, closes>>
    /\ sql_text' = ""
    /\ UNCHANGED <<opens, result, rows, cols, row_i, log, exit_code>>
    /\ UNCHANGED rootVars

\* run_sql_script: con.execute(<text>), the result dropped.  The engine runs
\* the script or rejects it; a connection that is not open rejects everything.
ScriptExecute ==
    /\ pc = "s_exec"
    /\ \E ok \in BOOLEAN :
         IF ok /\ con = "open"
         THEN /\ Return(Append(events, Event("execute", PathName(sql_path))))
              /\ UNCHANGED exc
         ELSE /\ Raise("duckdb.Error", "execute_failed")
              /\ UNCHANGED stage
    /\ sql_text' = ""
    /\ UNCHANGED <<con, opens, closes, result, rows, cols, row_i, log, exit_code>>
    /\ UNCHANGED rootVars

\* Variant: the title of the block is written as soon as the query has
\* executed, before its rows are fetched.
QueryExecuteStreaming ==
    /\ pc = "q_exec"
    /\ \E ok \in BOOLEAN :
         IF ok /\ con = "open"
         THEN /\ \E r \in QueryResults :
                    /\ result' = r
                    /\ events' = Append(events, EventR("execute", PathName(sql_path), r))
              /\ pc' = "q_fetch"
              /\ log' = log \o << Info(Delimiter), Info(PathName(sql_path)) >>
              /\ UNCHANGED exc
         ELSE /\ Raise("duckdb.Error", "execute_failed")
              /\ UNCHANGED <<result, log>>
    /\ sql_text' = ""
    /\ UNCHANGED <<stage, con, opens, closes, rows, cols, row_i, exit_code>>
    /\ UNCHANGED rootVars

\* run_sql_query: result = con.execute(<text>)
QueryExecute ==
    /\ pc = "q_exec"
    /\ \E ok \in BOOLEAN :
         IF ok /\ con = "open"
         THEN /\ \E r \in QueryResults :
                    /\ result' = r
                    /\ events' = Append(events, EventR("execute", PathName(sql_path), r))
              /\ pc' = "q_fetch"
              /\ UNCHANGED exc
         ELSE /\ Raise("duckdb.Error", "execute_failed")
              /\ UNCHANGED result
    /\ sql_text' = ""
    /\ UNCHANGED <<stage, con, opens, closes, rows, cols, row_i, log, exit_code>>
    /\ UNCHANGED rootVars

\* run_sql_query: rows = result.fetchall();
\* cols = [c[0] for c in result.description]
QueryFetch ==
    /\ pc = "q_fetch"
    /\ \E ok \in BOOLEAN :
         IF ok /\ con = "open"
         THEN /\ rows' = result.rows
              /\ cols' = [j \in 1..Len(result.description) |-> result.description[j].name]
              /\ pc' = "q_title"
              /\ events' = Append(events, Event("fetch", PathName(sql_path)))
              /\ UNCHANGED exc
         ELSE /\ Raise("duckdb.Error", "fetch_failed")
              /\ UNCHANGED <<rows, cols>>
    /\ UNCHANGED <<stage, con, opens, closes, sql_text, result, row_i, log,
                   exit_code>>
    /\ UNCHANGED rootVars

\* run_sql_query: the delimiter, sql_path.name, the delimiter and
\* ", ".join(cols)
QueryTitle ==
    /\ pc = "q_title"
    /\ log' = log \o << Info(Delimiter), Info(PathName(sql_path)), Info(Delimiter),
                        Info(JoinStr(", ", cols)) >>
    /\ row_i' = 1
    /\ pc' = "q_rows"
    /\ UNCHANGED <<stage, con, opens, closes, exc, sql_text, result, rows, cols,
                   events, exit_code>>
    /\ UNCHANGED rootVars

\* ", ".join(str(v) for v in row)
RowLine(row) == JoinStr(", ", [j \in 1..Len(row) |-> PyStr(row[j])])

\* Variant: the rows are written last to first.
QueryRowReversed ==
    /\ pc = "q_rows"
    /\ row_i <= Len(rows)
    /\ log' = Append(log, Info(RowLine(rows[Len(rows) + 1 - row_i])))
    /\ row_i' = row_i + 1
    /\ UNCHANGED <<pc, stage, con, opens, closes, exc, sql_text, result, rows, cols,
                   events, exit_code>>
    /\ UNCHANGED rootVars

\* run_sql_query: one iteration of "for row in rows"
QueryRow ==
    /\ pc = "q_rows"
    /\ row_i <= Len(rows)
    /\ log' = Append(log, Info(RowLine(rows[row_i])))
    /\ row_i' = row_i + 1
    /\ UNCHANGED <<pc, stage, con, opens, closes, exc, sql_text, result, rows, cols,
                   events, exit_code>>
    /\ UNCHANGED rootVars

\* run_sql_query: the loop is over and the function returns; its locals die.
QueryReturn ==
    /\ pc = "q_rows"
    /\ row_i > Len(rows)
    /\ Return(events)
    /\ result' = NoResult
    /\ rows' = <<>>
    /\ cols' = <<>>
    /\ row_i' = 0
    /\ UNCHANGED <<con, opens, closes, exc, sql_text, log, exit_code>>
    /\ UNCHANGED rootVars

\* finally: con.close(); then the exception in flight, if any, goes on.
Finally ==
    /\ pc = "finally"
    /\ con' = "closed"
    /\ closes' = closes + 1
    /\ events' = Append(events, Event("close", ""))
    /\ pc' = "exit"
    /\ UNCHANGED <<stage, opens, exc, sql_text, result, rows, cols, row_i, log,
                   exit_code>>
    /\ UNCHANGED rootVars

\* main() has returned or raised at top level: the interpreter exits with
\* status 0, or with status 1 after an uncaught exception.
Exit ==
    /\ pc = "exit"
    /\ exit_code' = (IF exc = "none" THEN 0 ELSE 1)
    /\ pc' = "done"
    /\ UNCHANGED <<stage, con, opens, closes, exc, sql_text, result, rows, cols,
                   row_i, log, events>>
    /\ UNCHANGED rootVars

\* --------------------------------------------------------- specifications

InitPipe ==
    /\ pc = "header"
    /\ stage = 0
    /\ con = "none"
    /\ opens = 0
    /\ closes = 0
    /\ exc = "none"
    /\ sql_text = ""
    /\ result = NoResult
    /\ rows = <<>>
    /\ cols = <<>>
    /\ row_i = 0
    /\ log = <<>>
    /\ events = <<>>
    /\ exit_code = -1

NoPath == Abs(<<"?">>)

InitCall ==
    /\ fr_pc = "call"
    /\ fr_cur = NoPath
    /\ fr_iter = 0
    /\ fr_checked = <<>>
    /\ fr_result = NoPath

\* The start paths tried: every directory of the branch, each also written
\* with a trailing ".." component, and paths relative to the working directory.
StartPaths ==
    { Abs(Chain(k)) : k \in 0..MaxDepth }
    \cup { Abs(Append(Chain(k), "..")) : k \in 0..MaxDepth }
    \cup { Rel(<<>>), Rel(<<"..">>), Rel(<<"d">>) }

\* The directories that may hold a marker: the branch and a side directory
\* "s" under every fourth of its levels (never an ancestor of a start path).
MarkerDirs ==
    { Abs(Chain(k)) : k \in 0..MaxDepth }
    \cup { Abs(Append(Chain(k), "s")) : k \in { j \in 0..(MaxDepth - 1) : j % 4 = 0 } }

MarkerSets == { m \in SUBSET MarkerDirs : Cardinality(m) <= MaxMarkers }

\* find_repo_root on its own, over every start path and marker placement.
InitRoot ==
    /\ fs_markers \in MarkerSets
    /\ fr_start \in StartPaths
    /\ InitCall
    /\ InitPipe

NextRoot == FrEnter \/ FrFound \/ FrAscend \/ FrFallback

SpecRoot == InitRoot /\ [][NextRoot]_vars

\* The script run as a program: the module is imported (ROOT_DIR is computed
\* from the script's own directory, in a checkout with or without its
\* pyproject.toml), then main() runs.
Init ==
    /\ fs_markers \in { {Abs(<<"repo">>)}, {} }
    /\ fr_start = ScriptDir
    /\ InitCall
    /\ InitPipe

Next ==
    \/ FrEnter \/ FrFound \/ FrAscend \/ FrFallback
    \/ LogHeader \/ MkArtifactsDir \/ Connect
    \/ ScriptLog \/ QueryLog \/ ReadSql \/ ScriptExecute
    \/ QueryExecute \/ QueryFetch \/ QueryTitle \/ QueryRow \/ QueryReturn
    \/ Finally \/ Exit

Spec == Init /\ [][Next]_vars

\* ------------------------------------------------- claims: find_repo_root

\* The directory k levels above directory p ("/" is its own parent).
Up(p, k) ==
    Abs(SubSeq(p.parts, 1, IF Len(p.parts) > k THEN Len(p.parts) - k ELSE 0))

\* The directory the argument start denotes.
StartDir == Resolve(fr_start)

\* The levels, among the first ten, at which a marker lies above StartDir.
MarkedLevels == { k \in 0..9 : Up(StartDir, k) \in fs_markers }

\* C6: find_repo_root returns the nearest of start and its ancestors within
\* the bounded walk that holds pyproject.toml (start itself when it holds
\* one, never a farther one), and the start directory when none does.
C6_NearestMarkerOrStart ==
    fr_pc = "done" =>
        IF MarkedLevels # {}
        THEN \E k \in MarkedLevels :
                /\ \A j \in MarkedLevels : k <= j
                /\ fr_result = Up(StartDir, k)
        ELSE fr_result = StartDir

\* C6 witness: a call that returned a marked proper ancestor of start
\* although a farther ancestor holds a marker too.
C6_Witness ==
    /\ fr_pc = "done"
    /\ Cardinality(MarkedLevels) >= 2
    /\ 0 \notin MarkedLevels
    /\ fr_result # StartDir
    /\ fr_result \in fs_markers

\* C10: find_repo_root stops after testing at most 10 directories, which are
\* start and its first 9 ancestors (the walk stays at "/" once there); it
\* never hangs; its result is start or a marked directory 0 to 9 levels above
\* start; a marker only 10 or more levels above start is not found, and
\* start is returned.
C10_BoundedWalk ==
    /\ Len(fr_checked) <= 10
    /\ \A i \in 1..Len(fr_checked) : fr_checked[i] = Up(StartDir, i - 1)
    /\ fr_pc = "loop" => fr_iter = Len(fr_checked)
    /\ fr_pc # "done" => ENABLED NextRoot
    /\ fr_pc = "done" =>
          /\ \/ fr_result = StartDir
             \/ /\ fr_result \in fs_markers
                /\ \E k \in 0..9 : fr_result = Up(StartDir, k)
          /\ MarkedLevels = {} => fr_result = StartDir

\* C10 witness: the only marker above start lies 10 or more levels up, ten
\* directories were tested and start came back.
C10_Witness ==
    /\ fr_pc = "done"
    /\ Len(StartDir.parts) >= 10
    /\ \E k \in 10..Len(StartDir.parts) : Up(StartDir, k) \in fs_markers
    /\ MarkedLevels = {}
    /\ Len(fr_checked) = 10
    /\ fr_result = StartDir

\* ------------------------------------------------------- claims: pipeline

\* The SQL files of the four stages, in the order the pipeline is to run them.
StageFiles ==
    << "create_library_tables.sql", "load_library_data.sql",
       "query_library_counts.sql", "query_library_kpi.sql" >>

QueryFiles == { "query_library_counts.sql", "query_library_kpi.sql" }

FailureEvents == { "read_failed", "execute_failed", "fetch_failed" }

\* What a stage does with the connection.
EngineEvents == { "execute", "execute_failed", "fetch", "fetch_failed" }

StageEvents ==
    { "start", "read", "read_failed", "return" } \cup EngineEvents

Happened(ev, file) ==
    \E i \in DOMAIN events : events[i].ev = ev /\ events[i].file = file

Count(ev, file) ==
    Cardinality({ i \in DOMAIN events : events[i].ev = ev /\ events[i].file = file })

SomeFailure == \E i \in DOMAIN events : events[i].ev \in FailureEvents

\* C1: once duckdb.connect has returned, close() is called exactly once on
\* every exit path of main (all stages succeeded, or any one of them failed):
\* never twice, and not zero times by the end of the run.
C1_CloseExactlyOnce ==
    /\ opens <= 1
    /\ closes <= opens
    /\ (pc = "done" /\ opens = 1) => (closes = 1 /\ con = "closed")
    /\ Cardinality({ i \in DOMAIN events : events[i].ev = "close" }) = closes

\* C1 witness: a finished run whose load-data script was rejected by the
\* engine, with the connection closed once.
C1_Witness ==
    /\ pc = "done"
    /\ Happened("execute_failed", StageFiles[2])
    /\ closes = 1

\* C2: at most one connection is open at any time; every con.execute and
\* fetch happens with the connection open; no stage acts before the
\* connection is acquired or after it is closed.
C2_OpenWhileStagesRun ==
    /\ opens - closes \in {0, 1}
    /\ (con = "open") <=> (opens - closes = 1)
    /\ \A i \in DOMAIN events :
          /\ events[i].ev \in EngineEvents => events[i].con = "open"
          /\ events[i].ev \in StageEvents =>
                /\ \E j \in 1..(i - 1) : events[j].ev = "connect"
                /\ \A j \in 1..(i - 1) : events[j].ev # "close"

\* C2 witness: a finished run in which all four stages executed and the
\* connection was then closed.
C2_Witness ==
    /\ pc = "done"
    /\ \A k \in 1..4 : Happened("execute", StageFiles[k])
    /\ events[Len(events)].ev = "close"

\* The files of the stages started so far, in the order they started.
StartedFiles ==
    LET starts == SelectSeq(events, LAMBDA e : e.ev = "start")
    IN  [i \in 1..Len(starts) |-> starts[i].file]

\* C3: the stages start in the order create-tables, load-data, counts, KPI,
\* each at most once and only after every earlier stage has returned; the
\* load-data script executes only after the create-tables script completed.
C3_StageOrder ==
    /\ Len(StartedFiles) <= 4
    /\ StartedFiles = SubSeq(StageFiles, 1, Len(StartedFiles))
    /\ \A i \in DOMAIN events :
          \A k \in 1..4 :
             (events[i].ev \in StageEvents /\ events[i].file = StageFiles[k]) =>
                \A m \in 1..(k - 1) :
                   \E j \in 1..(i - 1) :
                      events[j].ev = "return" /\ events[j].file = StageFiles[m]

\* C3 witness: the load-data script has executed.
C3_Witness == Happened("execute", StageFiles[2])

\* C4: a failed stage is neither retried nor followed by another stage; the
\* connection is released and the run ends with a non-zero exit status; the
\* exit status is 0 exactly when all four stages completed.
C4_NoCatchNoRetry ==
    /\ \A i \in DOMAIN events :
          events[i].ev \in FailureEvents =>
             \A j \in (i + 1)..Len(events) : events[j].ev = "close"
    /\ \A k \in 1..4 : Count("start", StageFiles[k]) <= 1
    /\ (pc = "done" /\ SomeFailure) =>
          (closes = 1 /\ con = "closed" /\ exit_code # 0)
    /\ pc = "done" =>
          ((exit_code = 0) <=> (\A k \in 1..4 : Happened("return", StageFiles[k])))
    /\ pc # "done" => exit_code = -1

\* C4 witness: a finished run whose counts query file was missing.
C4_Witness ==
    /\ pc = "done"
    /\ Happened("read_failed", StageFiles[3])
    /\ exit_code = 1

\* C5: when acquiring the connection fails (mkdir or duckdb.connect raises),
\* no "RUN SQL" line is logged, no stage acts, close() is not attempted and
\* the run ends with a non-zero exit status.
C5_AcquireFailureAborts ==
    Happened("acquire_failed", "") =>
        /\ log = << HeaderEntry >>
        /\ \A i \in DOMAIN events : events[i].ev = "acquire_failed"
        /\ opens = 0 /\ closes = 0 /\ con = "none"
        /\ pc \in {"exit", "done"}
        /\ pc = "done" => exit_code # 0

\* C5 witness: a finished run in which duckdb.connect raised.
C5_Witness ==
    /\ pc = "done"
    /\ exc = "IOException"
    /\ Happened("acquire_failed", "")

\* The expected rendering of each value the engine returns.
ExpectedText(v) ==
    IF v = IntV(-3) THEN "-3"
    ELSE IF v = IntV(0) THEN "0"
    ELSE IF v = IntV(7) THEN "7"
    ELSE IF v = IntV(12) THEN "12"
    ELSE IF v = IntV(105) THEN "105"
    ELSE IF v = StrV("x") THEN "x"
    ELSE "None"

\* strs joined by ", ", built from the right end.
RECURSIVE CommaJoined(_)
CommaJoined(strs) ==
    IF Len(strs) = 0 THEN ""
    ELSE IF Len(strs) = 1 THEN strs[1]
    ELSE CommaJoined(SubSeq(strs, 1, Len(strs) - 1)) \o ", " \o strs[Len(strs)]

\* The report block of query file f for result set res.
ExpectedBlock(f, res) ==
    << Info("===================================="), Info(f),
       Info("===================================="),
       Info(CommaJoined([j \in 1..Len(res.description) |-> res.description[j].name])) >>
    \o [i \in 1..Len(res.rows) |->
          Info(CommaJoined([j \in 1..Len(res.rows[i]) |-> ExpectedText(res.rows[i][j])]))]

\* The index in events of the event ev of file f (0 when there is none).
IndexOf(ev, f) ==
    IF Happened(ev, f)
    THEN CHOOSE i \in DOMAIN events : events[i].ev = ev /\ events[i].file = f
    ELSE 0

\* The "RUN SQL" line of stage k for the resolved root.
ExpectedRunLine(k) ==
    Info((IF k <= 2 THEN "RUN SQL script: " ELSE "RUN SQL query: ")
         \o PathStr(fr_result) \o "/sql/duckdb/" \o StageFiles[k])

\* C7: a query that returned emitted, right after its run line, a delimiter,
\* the file's name, a delimiter, the column names joined by ", " in column
\* order, then one line per row in the engine's row order, each the row's
\* string-rendered values joined by ", "; nothing else, nothing twice, and
\* only the header when there are no rows.
C7_ReportBlock ==
    \A k \in 3..4 :
        LET f == StageFiles[k] IN
        Happened("return", f) =>
            LET x == events[IndexOf("execute", f)]
                r == events[IndexOf("return", f)]
            IN  /\ log[x.at] = ExpectedRunLine(k)
                /\ SubSeq(log, x.at + 1, r.at) = ExpectedBlock(f, x.res)

\* C7 witness: the KPI query returned two different rows of three columns,
\* the larger first, and the log ends with their two lines, spelled out.
C7_Witness ==
    /\ Happened("return", StageFiles[4])
    /\ LET res == events[IndexOf("execute", StageFiles[4])].res
       IN  /\ Len(res.description) = 3
           /\ res.rows = << << IntV(12), NullV, IntV(0) >>,
                            << IntV(7), StrV("x"), IntV(105) >> >>
    /\ Len(log) >= 3
    /\ log[Len(log) - 2] = Info("branch_id, city, total")
    /\ log[Len(log) - 1] = Info("12, None, 0")
    /\ log[Len(log)] = Info("7, x, 105")

\* The "RUN SQL" lines of the four stages, in stage order.
ExpectedRunLines == [k \in 1..4 |-> ExpectedRunLine(k)]

\* C8: each script or query has its informational "RUN SQL" line, naming
\* its file, in the log before its SQL is read or submitted (so also when
\* it then fails); the run lines are in stage order; the header is emitted
\* once, before all of them.
C8_RunLineFirst ==
    LET expected == ExpectedRunLines
        isRun == [i \in DOMAIN log |-> \E k \in 1..4 : log[i] = expected[k]]
        runAt == { i \in DOMAIN log : isRun[i] }
        \* the run lines of the log, in log order
        nthRun(n) == CHOOSE i \in runAt : Cardinality({ j \in runAt : j <= i }) = n
    IN  /\ \A i \in DOMAIN events :
              \A k \in 1..4 :
                 (events[i].ev \in {"read", "read_failed", "execute", "execute_failed"}
                    /\ events[i].file = StageFiles[k]) =>
                      /\ events[i].at >= 1
                      /\ log[events[i].at] = expected[k]
        /\ Cardinality(runAt) <= 4
        /\ \A n \in 1..Cardinality(runAt) : log[nthRun(n)] = expected[n]
        /\ \A k \in 1..4 : Happened("start", StageFiles[k]) => Cardinality(runAt) >= k
        /\ pc # "header" => (Len(log) >= 1 /\ log[1] = HeaderEntry)
        /\ \A i \in 2..Len(log) : log[i].kind = "info"

\* C8 witness: the load-data script's file was missing, and its run line is
\* in the log of the finished run.
C8_Witness ==
    /\ pc = "done"
    /\ Happened("read_failed", StageFiles[2])
    /\ log[Len(log)] = ExpectedRunLine(2)

\* C9: when reading, executing or fetching a query fails, the log ends with
\* the blank line and the query's run line: no line of its report block is
\* ever emitted; and a block is written only after the rows were fetched.
C9_NoPartialBlock ==
    \A k \in 3..4 :
        LET f == StageFiles[k] IN
        /\ (\E ev \in FailureEvents : Happened(ev, f)) =>
              LET st == events[IndexOf("start", f)]
              IN  /\ Len(log) = st.at + 2
                  /\ log[st.at + 1] = Info("")
                  /\ log[st.at + 2] = ExpectedRunLine(k)
        /\ Happened("start", f) =>
              LET st == events[IndexOf("start", f)]
              IN  Len(log) > st.at + 2 => Happened("fetch", f)

\* C9 witness: fetching the rows of the KPI query failed.
C9_Witness ==
    /\ pc = "done"
    /\ Happened("fetch_failed", StageFiles[4])
====
